---- MODULE Spec2Model ----
(***************************************************************************)
(* The notebook notebooks/parallel-locate.ipynb: a curried single-image    *)
(* analysis function is mapped over a frame sequence on an ipyparallel     *)
(* load-balanced view, and the per-frame tables are concatenated.          *)
(*                                                                         *)
(* State: the frame sequence, the engines of the cluster, the tasks the    *)
(* notebook has submitted, the order in which their replies arrived, and   *)
(* the notebook's own position and variables (Out[14], amr, results,       *)
(* features_ipy).                                                          *)
(*                                                                         *)
(* The notebook only calls ipyparallel and pandas; what those calls do is  *)
(* taken from the notebook's own recorded outputs where it shows them      *)
(* (Out[14], the "100/100 tasks finished" progress line) and otherwise     *)
(* from the libraries' documented behaviour: one task per element, any     *)
(* idle engine may be given any queued task, wait_interactive and get      *)
(* return when every task has replied, get re-raises a remote error, the   *)
(* results come back by msg id, map over an empty sequence returns [],     *)
(* and pd.concat of an empty list raises.                                  *)
(***************************************************************************)
EXTENDS Integers, Sequences, FiniteSets, TLC

\* Bounds of the model.
MaxFrames == 3          \* longest frame sequence
MaxRows == 2            \* most features one frame yields
MaxEngines == 2         \* largest cluster
MaxPrimedFrames == 2    \* longest frame sequence when the priming cell runs
MaxPrimedRows == 1      \* most features one frame yields when it runs

\* Program constants.
PrimeLen == 4           \* frames[:4]
BatchLen == 100         \* frames[:100]

VARIABLES
    frames,         \* gray(pims.ImageSequence(...)): the images, in order
    engines,        \* engine id -> msg id of the task it runs, 0 when idle
    tasks,          \* msg id -> [image, status, reply, runs]
    arrived,        \* msg ids in the order their replies reached the client
    pc,             \* the notebook's position
    out14,          \* what view.map returned (Out[14])
    amr,            \* what view.map_async returned
    results,        \* results = amr.get()
    features_ipy    \* features_ipy = pd.concat(results, ignore_index=True)

vars == <<frames, engines, tasks, arrived, pc, out14, amr, results, features_ipy>>

----
\* Helpers.

Min(a, b) == IF a <= b THEN a ELSE b

Range(s) == {s[k] : k \in 1..Len(s)}

RECURSIVE Flatten(_)
Flatten(tables) ==
    IF tables = <<>> THEN <<>> ELSE Head(tables) \o Flatten(Tail(tables))

RECURSIVE SelectIds(_, _)
SelectIds(s, ids) ==
    IF s = <<>> THEN <<>>
    ELSE IF Head(s) \in ids THEN <<Head(s)>> \o SelectIds(Tail(s), ids)
         ELSE SelectIds(Tail(s), ids)

\* seq[:n]
Slice(s, n) == SubSeq(s, 1, Min(n, Len(s)))

\* One image of the sequence: pims numbers the frames from 0.  spots are the
\* features the image holds; bad marks an image on which locate raises.
Image(i, n, b) ==
    [frame_no |-> i - 1,
     spots    |-> [k \in 1..n |-> (10 * i) + k],
     bad      |-> b]

\* curried_locate = lambda image: tp.locate(image, 13, invert=True)
\* One row per feature, indexed from 0, with the frame number of the image.
curried_locate(image) ==
    [k \in 1..Len(image.spots) |->
        [index |-> k - 1, y |-> image.spots[k], frame |-> image.frame_no]]

\* serial_result = list(map(curried_locate, frames[:100]))
serial_result(fs) ==
    [k \in 1..Len(Slice(fs, BatchLen)) |-> curried_locate(Slice(fs, BatchLen)[k])]

\* pd.concat(objs): the rows of the tables in list order, each keeping its index.
PdConcatKeepIndex(objs) == Flatten(objs)

\* pd.concat(objs, ignore_index=True): the rows of the tables in list order,
\* the index renumbered 0..R-1.
PdConcat(objs) ==
    [k \in 1..Len(Flatten(objs)) |->
        [index |-> k - 1, y |-> Flatten(objs)[k].y, frame |-> Flatten(objs)[k].frame]]

----
\* The cluster.

NoHandle == [kind |-> "none", msg_ids |-> <<>>]

\* The tasks of a map call, handed out last image first.
NewTasksReversed(images) ==
    [k \in 1..Len(images) |->
        [image |-> images[Len(images) + 1 - k], status |-> "queued",
         reply |-> <<>>, runs |-> 0]]

\* The tasks a map call submits: one per image (chunksize 1), in order.
NewTasks(images) ==
    [k \in 1..Len(images) |->
        [image |-> images[k], status |-> "queued", reply |-> <<>>, runs |-> 0]]

\* The msg ids of a map call that submits n tasks.
NewIds(n) == [k \in 1..n |-> Len(tasks) + k]

Complete(t) == tasks[t].status \in {"ok", "error"}

\* AsyncResult.ready(): every task of the handle has replied.
ReadyAny(h) == \E k \in 1..Len(h.msg_ids) : Complete(h.msg_ids[k])

Ready(h) == \A k \in 1..Len(h.msg_ids) : Complete(h.msg_ids[k])

\* A task of the handle raised.
FailedNever(h) == FALSE

Failed(h) == \E k \in 1..Len(h.msg_ids) : tasks[h.msg_ids[k]].status = "error"

\* The replies of the handle's tasks in arrival order.
CollectArrival(h) ==
    [k \in 1..Len(SelectIds(arrived, Range(h.msg_ids))) |->
        tasks[SelectIds(arrived, Range(h.msg_ids))[k]].reply]

\* AsyncMapResult (ordered): the replies of the handle's tasks in msg id order.
Collect(h) == [k \in 1..Len(h.msg_ids) |-> tasks[h.msg_ids[k]].reply]

\* An engine takes a task but the task stays in the queue.
AssignNoDequeue(e, t) ==
    /\ engines[e] = 0
    /\ tasks[t].status = "queued"
    /\ engines' = [engines EXCEPT ![e] = t]
    /\ tasks' = [tasks EXCEPT ![t].runs = @ + 1]
    /\ UNCHANGED <<frames, arrived, pc, out14, amr, results, features_ipy>>

\* The load-balanced scheduler hands a queued task to an idle engine.
Assign(e, t) ==
    /\ engines[e] = 0
    /\ tasks[t].status = "queued"
    /\ engines' = [engines EXCEPT ![e] = t]
    /\ tasks' = [tasks EXCEPT ![t].status = "running", ![t].runs = @ + 1]
    /\ UNCHANGED <<frames, arrived, pc, out14, amr, results, features_ipy>>

\* An engine finishes its task: curried_locate returns a table or raises.
Finish(e) ==
    /\ engines[e] # 0
    /\ engines' = [engines EXCEPT ![e] = 0]
    /\ tasks' = [tasks EXCEPT ![engines[e]] =
            IF tasks[engines[e]].image.bad
            THEN [tasks[engines[e]] EXCEPT !.status = "error"]
            ELSE [tasks[engines[e]] EXCEPT
                    !.status = "ok",
                    !.reply = curried_locate(tasks[engines[e]].image)]]
    /\ arrived' = Append(arrived, engines[e])
    /\ UNCHANGED <<frames, pc, out14, amr, results, features_ipy>>

----
\* The notebook.

\* A map that blocks: the tasks run to completion and the results come back.
ViewMapSync ==
    /\ pc = "view_map"
    /\ tasks' = tasks \o [k \in 1..Len(Slice(frames, PrimeLen)) |->
            [image  |-> Slice(frames, PrimeLen)[k],
             status |-> IF Slice(frames, PrimeLen)[k].bad THEN "error" ELSE "ok",
             reply  |-> IF Slice(frames, PrimeLen)[k].bad THEN <<>>
                        ELSE curried_locate(Slice(frames, PrimeLen)[k]),
             runs   |-> 1]]
    /\ arrived' = arrived \o NewIds(Len(Slice(frames, PrimeLen)))
    /\ out14' = "list"
    /\ pc' = "map_async"
    /\ UNCHANGED <<frames, engines, amr, results, features_ipy>>

\* view.map(curried_locate, frames[:4]): submits the tasks and returns the
\* handle (Out[14] is <AsyncMapResult: <lambda>>); an empty sequence submits
\* nothing and returns [].
ViewMap ==
    /\ pc = "view_map"
    /\ tasks' = tasks \o NewTasks(Slice(frames, PrimeLen))
    /\ out14' = IF Len(Slice(frames, PrimeLen)) = 0 THEN "list" ELSE "AsyncMapResult"
    /\ pc' = "map_async"
    /\ UNCHANGED <<frames, engines, arrived, amr, results, features_ipy>>

\* amr = view.map_async(curried_locate, frames[:100])
MapAsync ==
    /\ pc = "map_async"
    /\ tasks' = tasks \o NewTasks(Slice(frames, BatchLen))
    /\ amr' = [kind    |-> IF Len(Slice(frames, BatchLen)) = 0
                           THEN "list" ELSE "AsyncMapResult",
               msg_ids |-> NewIds(Len(Slice(frames, BatchLen)))]
    /\ pc' = "wait_interactive"
    /\ UNCHANGED <<frames, engines, arrived, out14, results, features_ipy>>

\* amr.wait_interactive(): returns once every task of the handle has replied;
\* a list has no such method.
WaitInteractive ==
    /\ pc = "wait_interactive"
    /\ IF amr.kind = "list"
       THEN pc' = "fault"
       ELSE Ready(amr) /\ pc' = "get"
    /\ UNCHANGED <<frames, engines, tasks, arrived, out14, amr, results, features_ipy>>

\* results = amr.get(): waits for the tasks, raises if one of them raised,
\* else returns their results.
Get ==
    /\ pc = "get"
    /\ Ready(amr)
    /\ IF Failed(amr)
       THEN pc' = "fault" /\ UNCHANGED results
       ELSE pc' = "concat" /\ results' = Collect(amr)
    /\ UNCHANGED <<frames, engines, tasks, arrived, out14, amr, features_ipy>>

\* features_ipy = pd.concat(results, ignore_index=True): raises on an empty list.
Concat ==
    /\ pc = "concat"
    /\ IF Len(results) = 0
       THEN pc' = "fault" /\ UNCHANGED features_ipy
       ELSE pc' = "done" /\ features_ipy' = PdConcat(results)
    /\ UNCHANGED <<frames, engines, tasks, arrived, out14, amr, results>>

----
\* Specifications.

FrameSeqs(maxN, maxRows) ==
    UNION {
        {[i \in 1..n |-> Image(i, rows[i], i = b)] :
            rows \in [1..n -> 0..maxRows], b \in 0..n}
        : n \in 0..maxN}

InitWith(fs, start) ==
    /\ frames \in fs
    /\ engines \in UNION {[1..p -> {0}] : p \in 1..MaxEngines}
    /\ tasks = <<>>
    /\ arrived = <<>>
    /\ pc = start
    /\ out14 = "none"
    /\ amr = NoHandle
    /\ results = <<>>
    /\ features_ipy = <<>>

\* The map-and-concatenate cell on an idle cluster.
Init == InitWith(FrameSeqs(MaxFrames, MaxRows), "map_async")

\* The priming cell first: its tasks may still run when the next cell starts.
InitPrimed == InitWith(FrameSeqs(MaxPrimedFrames, MaxPrimedRows), "view_map")

Engine ==
    \/ \E e \in DOMAIN engines, t \in DOMAIN tasks : Assign(e, t)
    \/ \E e \in DOMAIN engines : Finish(e)

Notebook == MapAsync \/ WaitInteractive \/ Get \/ Concat

Next == Engine \/ Notebook

NextPrimed == ViewMap \/ Next

Spec == Init /\ [][Next]_vars

SpecPrimed == InitPrimed /\ [][NextPrimed]_vars

\* Engines that hold a task finish it, idle engines are given queued tasks,
\* and the notebook's cell runs on.
Fairness ==
    /\ WF_vars(Engine)
    /\ WF_vars(Notebook)

FairSpec == Init /\ [][Next]_vars /\ Fairness

----
\* Properties.

\* frames[:100], the sequence the map-and-concatenate cell works on.
Batch == Slice(frames, BatchLen)

HasBad == \E k \in 1..Len(Batch) : Batch[k].bad

Ended == pc \in {"done", "fault"}

AllReplied == \A k \in 1..Len(amr.msg_ids) : tasks[amr.msg_ids[k]].status \in {"ok", "error"}

\* Some reply of the handle's tasks overtook the reply of an earlier task.
OutOfOrder ==
    \E i, j \in 1..Len(arrived) :
        /\ i < j
        /\ arrived[i] > arrived[j]
        /\ arrived[i] \in Range(amr.msg_ids)
        /\ arrived[j] \in Range(amr.msg_ids)

RECURSIVE SumRows(_)
SumRows(images) ==
    IF images = <<>> THEN 0
    ELSE Len(curried_locate(Head(images))) + SumRows(Tail(images))

Occurrences(table, fno) == Cardinality({k \in 1..Len(table) : table[k].frame = fno})

RowCounts ==
    /\ Len(features_ipy) = SumRows(Batch)
    /\ \A k \in 1..Len(Batch) :
        Occurrences(features_ipy, Batch[k].frame_no) = Len(curried_locate(Batch[k]))

\* C1: for every frame sequence of length N >= 0 and a per-frame function
\* that returns a table on every frame, the operation ends with a combined
\* table whose row count is the sum of the per-frame row counts and in which
\* each frame index occurs as often as its frame has rows.
C1_RowCounts == (~HasBad /\ Ended) => (pc = "done" /\ RowCounts)

\* C1, for the runs that produce the table: its row counts are right.
C1_RowCountsWhenProduced == pc = "done" => RowCounts

C1_Witness == pc = "done" /\ Len(Batch) >= 2 /\ Len(features_ipy) >= 3

\* C2: the result list is in input order whatever the order in which the
\* engines finished: its k-th element is the table of the k-th frame, and the
\* frame column of the combined table never decreases.
C2_InputOrder ==
    /\ pc \in {"concat", "done"} =>
        /\ Len(results) = Len(Batch)
        /\ \A k \in 1..Len(Batch) : results[k] = curried_locate(Batch[k])
    /\ pc = "done" =>
        \A i, j \in 1..Len(features_ipy) :
            i < j => features_ipy[i].frame <= features_ipy[j].frame

\* A later frame finished before an earlier one, and both have rows.
C2_Witness ==
    /\ pc = "done"
    /\ OutOfOrder
    /\ \E i, j \in 1..Len(features_ipy) : features_ipy[i].frame # features_ipy[j].frame

C4_FaultPropagates ==
    HasBad =>
        /\ pc \in {"map_async", "wait_interactive", "get", "fault"}
        /\ results = <<>>
        /\ features_ipy = <<>>

\* A frame raised while another frame's table came back, and get() raised.
C4_Witness ==
    /\ HasBad
    /\ pc = "fault"
    /\ \E k \in 1..Len(amr.msg_ids) :
        /\ tasks[amr.msg_ids[k]].status = "ok"
        /\ tasks[amr.msg_ids[k]].reply # <<>>

\* C5: on an empty frame sequence the operation ends without a fault, with a
\* combined table of zero rows.
C5_EmptyNoFault ==
    (Len(frames) = 0 /\ Ended) => (pc = "done" /\ Len(features_ipy) = 0)

\* C6: the wait returns and the concatenation starts only after every
\* submitted task has replied.
C6_Blocking ==
    pc \in {"get", "concat", "done"} =>
        /\ Len(amr.msg_ids) = Len(Batch)
        /\ AllReplied
        /\ \A e \in DOMAIN engines : engines[e] \notin Range(amr.msg_ids)

C6_Witness ==
    /\ pc = "concat"
    /\ Len(amr.msg_ids) >= 2
    /\ OutOfOrder

\* C7: view.map is synchronous: once it has returned, every task it
\* submitted has replied and Out[14] is the list of results.
C7_MapSynchronous ==
    [][(pc = "view_map" /\ pc' # "view_map") =>
        /\ out14' = "list"
        /\ \A t \in DOMAIN tasks' : tasks'[t].status \in {"ok", "error"}]_vars

\* C7, amended: on a frame sequence that is not empty view.map returns as
\* map_async does, with an AsyncMapResult handle and without waiting for the
\* tasks it submitted.
C7_MapReturnsHandle ==
    (pc # "view_map" /\ Len(frames) > 0) => out14 = "AsyncMapResult"

\* view.map has returned, map_async too, and a task of view.map still waits.
C7_Witness ==
    /\ pc = "wait_interactive"
    /\ out14 = "AsyncMapResult"
    /\ \E t \in DOMAIN tasks :
        /\ t \notin Range(amr.msg_ids)
        /\ tasks[t].status \in {"queued", "running"}

\* C8: every frame is analysed exactly once: one task per frame, no task on
\* two engines or run twice, and on completion one table per frame.
C8_ExactlyOnce ==
    /\ \A t \in DOMAIN tasks :
        /\ tasks[t].runs <= 1
        /\ Cardinality({e \in DOMAIN engines : engines[e] = t}) <= 1
    /\ pc # "map_async" =>
        /\ Len(amr.msg_ids) = Len(Batch)
        /\ \A i, j \in 1..Len(amr.msg_ids) : i # j => amr.msg_ids[i] # amr.msg_ids[j]
        /\ \A k \in 1..Len(amr.msg_ids) : tasks[amr.msg_ids[k]].image = Batch[k]
    /\ pc \in {"concat", "done"} =>
        /\ Len(results) = Len(Batch)
        /\ \A k \in 1..Len(amr.msg_ids) : tasks[amr.msg_ids[k]].runs = 1

C8_Witness ==
    /\ pc = "concat"
    /\ Len(Batch) >= 2
    /\ Len(engines) >= 2
    /\ OutOfOrder

\* C9: the combined table holds the rows of the per-frame tables in list
\* order, the index renumbered 0..R-1, frame and column values unchanged.
C9_Renumbered ==
    pc = "done" =>
        /\ Len(features_ipy) = Len(Flatten(results))
        /\ \A k \in 1..Len(features_ipy) :
            /\ features_ipy[k].index = k - 1
            /\ features_ipy[k].y = Flatten(results)[k].y
            /\ features_ipy[k].frame = Flatten(results)[k].frame

\* A row whose index in its per-frame table is not its index in the result.
C9_Witness ==
    /\ pc = "done"
    /\ \E k \in 1..Len(Flatten(results)) : Flatten(results)[k].index # k - 1

\* C10: with fair engines and a per-frame function that returns on every
\* frame, the operation eventually produces the combined table.
C10_Terminates == (~HasBad) => <>(pc = "done")

\* C4, the fault is reached: with fair engines a raising frame ends the
\* operation in the fault.
C4_FaultReached == HasBad => <>(pc = "fault")

\* C10, for a frame sequence that is not empty.
C10_TerminatesNonEmpty == (~HasBad /\ Len(frames) > 0) => <>(pc = "done")

====
